---- MODULE Spec2Model ----
(***************************************************************************)
(* Model of BrowserBookmarks.py: the bookmark handlers of the Chromium and *)
(* Firefox families and the BrowserBookmarks extension that owns them.     *)
(*                                                                         *)
(* Strings are sequences of one-character strings, so that lower(),        *)
(* substring tests, split(' ') and instr() are computed and not assumed.   *)
(***************************************************************************)
EXTENDS Integers, Sequences, FiniteSets, TLC

VARIABLES
    fs,          \* what is on disk, per browser (a name of the content)
    phase,       \* "new", "ready" (BrowserBookmarks() returned) or "failed" (it raised)
    constructed, \* what each handler constructor did, in the order of the calls
    handlers,    \* self.bookmark_browser_handlers
    last         \* the last event handled and what it returned

vars == <<fs, phase, constructed, handlers, last>>

(***************************************************************************)
(* Bounds of the model                                                     *)
(***************************************************************************)
\* number of profile files of the largest google-chrome installation
MaxProfiles == 2

(***************************************************************************)
(* Strings                                                                 *)
(***************************************************************************)
\* the query argument of an event without argument (Python None)
None == <<"None">>

SP == " "
TAB == "\t"

\* str.lower() on one character
LowerChar(c) == IF c = "A" THEN "a" ELSE IF c = "B" THEN "b" ELSE c

\* str.lower()
Lower(s) == [i \in 1..Len(s) |-> LowerChar(s[i])]

\* s[i .. i+n-1]
Slice(s, i, n) == [k \in 1..n |-> s[i + k - 1]]

\* Python: sub in text
Contains(text, sub) ==
    \E i \in 1..(Len(text) - Len(sub) + 1) : Slice(text, i, Len(sub)) = sub

\* Python: text.startswith(prefix)
StartsWith(text, prefix) ==
    /\ Len(prefix) <= Len(text)
    /\ Slice(text, 1, Len(prefix)) = prefix

\* SQLite instr(text, sub): 1-based position of the first occurrence, 0 if none
InStr(text, sub) ==
    IF Contains(text, sub)
    THEN CHOOSE i \in 1..(Len(text) - Len(sub) + 1) :
            /\ Slice(text, i, Len(sub)) = sub
            /\ \A j \in 1..(i - 1) : Slice(text, j, Len(sub)) # sub
    ELSE 0

RECURSIVE SplitFrom(_, _, _, _)
\* scan of s from position i; cur is the piece being collected
SplitFrom(s, sep, i, cur) ==
    IF i > Len(s) THEN <<cur>>
    ELSE IF s[i] = sep THEN <<cur>> \o SplitFrom(s, sep, i + 1, <<>>)
    ELSE SplitFrom(s, sep, i + 1, Append(cur, s[i]))

\* Python: query.split(' ')  (the separator is the single space character)
split(s) == SplitFrom(s, SP, 1, <<>>)

\* contains_all_substrings that is content with one substring
AnySubstring(text, substrings) ==
    \E i \in 1..Len(substrings) : Contains(Lower(text), Lower(substrings[i]))

\* BookmarksHandler.contains_all_substrings
contains_all_substrings(text, substrings) ==
    \A i \in 1..Len(substrings) : Contains(Lower(text), Lower(substrings[i]))

(***************************************************************************)
(* Program constants                                                       *)
(***************************************************************************)
\* BrowserBookmarks.max_matches_len
max_matches_len == 10

ChromiumKeys == {"chrome", "chromium", "brave"}
FirefoxKeys == {"firefox", "snapfirefox"}

\* support_browsers, in the insertion order of the dict
BrowserOrder == <<"chrome", "chromium", "brave", "firefox", "snapfirefox">>
BrowserKeys == {BrowserOrder[i] : i \in 1..Len(BrowserOrder)}

support_browsers == [b \in BrowserKeys |->
    CASE b = "chrome"      -> [name |-> "Google",         image |-> "images/chrome.png",   handler |-> "Chromium"]
      [] b = "chromium"    -> [name |-> "Chromium",       image |-> "images/chromium.png", handler |-> "Chromium"]
      [] b = "brave"       -> [name |-> "Brave",          image |-> "images/brave.png",    handler |-> "Chromium"]
      [] b = "firefox"     -> [name |-> "Firefox",        image |-> "images/firefox.png",  handler |-> "Firefox"]
      [] b = "snapfirefox" -> [name |-> "Firefox (snap)", image |-> "images/firefox.png",  handler |-> "Firefox"]]

\* PreferencesUpdateEventListener.allowed_event_ids
\* a preference id is the pair (prefix "search_" or "", rest of the id)
allowed_event_ids ==
    {<<"search_", "chrome">>, <<"search_", "chromium">>, <<"search_", "brave">>,
     <<"search_", "firefox">>, <<"", "firefox_profile">>}

(***************************************************************************)
(* Chromium family: the JSON bookmark tree                                 *)
(***************************************************************************)
\* a node of the JSON tree; every node carries the same keys
Url(name, url) == [type |-> "url", name |-> name, url |-> url, children |-> <<>>]
Folder(children) == [type |-> "folder", name |-> <<>>, url |-> "", children |-> children]

\* ExtensionResultItem(icon, name, description, on_enter=OpenUrlAction(url))
ExtensionResultItem(icon, name, description, on_enter) ==
    [icon |-> icon, name |-> name, description |-> description, on_enter |-> on_enter]

RECURSIVE find_rec(_, _, _, _)
RECURSIVE find_children(_, _, _, _, _)

\* find_rec without the test of the budget
find_rec_unbounded(self, bookmark_entry, query, st) ==
    IF bookmark_entry.type = "folder"
    THEN find_children(self, bookmark_entry.children, 1, query, st)
    ELSE IF ~contains_all_substrings(bookmark_entry.name, split(query))
    THEN st
    ELSE [matches |-> Append(st.matches, bookmark_entry),
          matches_len |-> st.matches_len + 1]

\* ChromiumBookmarksHandler.find_rec; st is (matches, self.matches_len)
find_rec(self, bookmark_entry, query, st) ==
    IF st.matches_len >= self.max_matches_len
    THEN st
    ELSE IF bookmark_entry.type = "folder"
    THEN find_children(self, bookmark_entry.children, 1, query, st)
    ELSE IF ~contains_all_substrings(bookmark_entry.name, split(query))
    THEN st
    ELSE [matches |-> Append(st.matches, bookmark_entry),
          matches_len |-> st.matches_len + 1]

\* the loop over bookmark_entry['children'] of find_rec
find_children(self, children, i, query, st) ==
    IF i > Len(children)
    THEN st
    ELSE find_children(self, children, i + 1, query,
                       find_rec(self, children[i], query, st))

\* the three roots, in the order get_bookmarks visits them
RootOrder == <<"bookmark_bar", "synced", "other">>

RECURSIVE ScanRoots(_, _, _, _, _)
\* the three find_rec calls on one file; data['roots'][r] raises KeyError
\* when the root is missing, and the matches found so far stay counted
ScanRoots(self, data, k, query, st) ==
    IF k > Len(RootOrder)
    THEN [raised |-> FALSE, matches |-> st.matches, matches_len |-> st.matches_len]
    ELSE IF RootOrder[k] \notin data.has
    THEN [raised |-> TRUE, matches |-> st.matches, matches_len |-> st.matches_len]
    ELSE ScanRoots(self, data, k + 1, query,
                   find_rec(self, data.roots[RootOrder[k]], query, st))

\* the items built from the matches of one file
ItemsOf(image, matches) ==
    [i \in 1..Len(matches) |->
        ExtensionResultItem(image, matches[i].name, matches[i].url, matches[i].url)]

\* open(bookmarks_path): the content of the file on disk
FileAt(disk, path) == disk[CHOOSE i \in 1..Len(disk) : disk[i].path = path].data

RECURSIVE ScanFiles(_, _, _, _, _, _)

\* the end of one turn of the loop over self.bookmark_paths: r is what the
\* three find_rec calls on the file did; its matches become items
AfterFile(self, disk, p, query, items, r) ==
    IF r.raised
    THEN [raised |-> TRUE, items |-> <<>>, rows |-> <<>>, matches_len |-> r.matches_len]
    ELSE ScanFiles(self, disk, p + 1, query,
                   items \o ItemsOf(self.image, r.matches), r.matches_len)

\* with open(bookmarks_path) ... json.load: both raise on a bad file
ReadFile(self, data, query, mlen) ==
    IF ~data.readable \/ ~data.json_ok
    THEN [raised |-> TRUE, matches |-> <<>>, matches_len |-> mlen]
    ELSE ScanRoots(self, data, 1, query, [matches |-> <<>>, matches_len |-> mlen])

\* the loop over self.bookmark_paths of get_bookmarks; items and mlen are the
\* items built and the value of self.matches_len so far
ScanFiles(self, disk, p, query, items, mlen) ==
    IF p > Len(self.bookmark_paths)
    THEN [raised |-> FALSE, items |-> items, rows |-> <<>>, matches_len |-> mlen]
    ELSE AfterFile(self, disk, p, query, items,
                   ReadFile(self, FileAt(disk, self.bookmark_paths[p]), query, mlen))

\* get_bookmarks without the early return of an inactive handler
ChromiumGetBookmarksIgnoringActive(self, disk, query) ==
    ScanFiles(self, disk, 1, IF query = None THEN <<>> ELSE query, <<>>, 0)

\* ChromiumBookmarksHandler.get_bookmarks: the result (raised, items) and the
\* value self.matches_len is left with
ChromiumGetBookmarks(self, disk, query) ==
    IF ~self.active
    THEN [raised |-> FALSE, items |-> <<>>, rows |-> <<>>, matches_len |-> self.matches_len]
    ELSE ScanFiles(self, disk, 1, IF query = None THEN <<>> ELSE query, <<>>, 0)

\* lines printed by `find $HOME/path | grep Bookmarks`, split on '\n'
EmptyPath == [dir |-> "", base |-> ""]
FindGrep(disk) ==
    SelectSeq([i \in 1..Len(disk) |-> disk[i].path],
              LAMBDA q : q.base \in {"Bookmarks", "Bookmarks.bak"}) \o <<EmptyPath>>

\* ChromiumBookmarksHandler.get_bookmark_paths
get_bookmark_paths(disk) ==
    SelectSeq(FindGrep(disk), LAMBDA q : q.base = "Bookmarks")

\* BookmarksHandler.__init__ and ChromiumBookmarksHandler.__init__
ChromiumInit(b, disk) ==
    [active |-> TRUE, image |-> support_browsers[b].image,
     max_matches_len |-> max_matches_len, matches_len |-> 0,
     bookmark_paths |-> get_bookmark_paths(disk), conn |-> "absent", snapshot |-> ""]

(***************************************************************************)
(* Firefox family: profiles.ini                                            *)
(***************************************************************************)
\* a section of profiles.ini: its name is a prefix and a suffix
\* ("Install" "4F96", "Profile" "0"), its options are Default and Path
Section(prefix, suffix, hasDefault, default, hasPath, path) ==
    [prefix |-> prefix, suffix |-> suffix, hasDefault |-> hasDefault,
     Default |-> default, hasPath |-> hasPath, Path |-> path]

\* RawConfigParser.getint(section, 'Default')
getint(section) ==
    IF ~section.hasDefault THEN [raised |-> TRUE, value |-> 0]
    ELSE IF section.Default = "1" THEN [raised |-> FALSE, value |-> 1]
    ELSE IF section.Default = "0" THEN [raised |-> FALSE, value |-> 0]
    ELSE [raised |-> TRUE, value |-> 0]

\* profile_config.get("Profile0", "Path")
GetProfile0Path(profile_config) ==
    LET hits == {i \in 1..Len(profile_config) :
                    /\ profile_config[i].prefix = "Profile"
                    /\ profile_config[i].suffix = "0"} IN
    IF hits = {} THEN [raised |-> TRUE, value |-> ""]
    ELSE LET sec == profile_config[CHOOSE i \in hits : TRUE] IN
         IF sec.hasPath THEN [raised |-> FALSE, value |-> sec.Path]
         ELSE [raised |-> TRUE, value |-> ""]

RECURSIVE ProfileLoop(_, _)
\* the loop over profile_config.sections() of get_default_profile_path
ProfileLoop(profile_config, i) ==
    IF i > Len(profile_config)
    THEN GetProfile0Path(profile_config)
    ELSE LET section == profile_config[i] IN
         IF section.hasDefault
         THEN IF section.prefix = "Install"
              THEN [raised |-> FALSE, value |-> section.Default]
              ELSE ProfileLoop(profile_config, i + 1)
         ELSE LET g == getint(section) IN
              IF g.raised THEN [raised |-> TRUE, value |-> ""]
              ELSE IF g.value = 1 /\ section.hasPath
              THEN [raised |-> FALSE, value |-> section.Path]
              ELSE ProfileLoop(profile_config, i + 1)

\* FirefoxBookmarksHandler.get_default_profile_path
get_default_profile_path(profile_config) == ProfileLoop(profile_config, 1)

\* FirefoxBookmarksHandler.search_places: None when the browser root is
\* missing, else the profile directory holding places.sqlite
search_places(ff) ==
    IF ~ff.rootExists
    THEN [raised |-> FALSE, isNone |-> TRUE, value |-> ""]
    ELSE LET r == get_default_profile_path(ff.config) IN
         [raised |-> r.raised, isNone |-> FALSE, value |-> r.value]

\* BookmarksHandler.__init__ and FirefoxBookmarksHandler.__init__; logger.log
\* is called without its level argument and raises TypeError, copyfile raises
\* when places.sqlite is absent
FirefoxInit(b, ff) ==
    LET history_location == search_places(ff)
        self == [active |-> TRUE, image |-> support_browsers[b].image,
                 max_matches_len |-> max_matches_len, matches_len |-> 0,
                 bookmark_paths |-> <<>>, conn |-> "unset", snapshot |-> ""] IN
    IF history_location.raised THEN [raised |-> TRUE, self |-> self]
    ELSE IF history_location.isNone THEN [raised |-> TRUE, self |-> self]
    ELSE IF history_location.value \notin ff.places THEN [raised |-> TRUE, self |-> self]
    ELSE [raised |-> FALSE,
          self |-> [self EXCEPT !.conn = "open", !.snapshot = history_location.value]]

(***************************************************************************)
(* Firefox family: the places database                                     *)
(***************************************************************************)
\* p.title of a bookmark without parent folder row (SQL NULL)
NULL == <<"NULL">>
Toolbar == <<"t", "o", "o", "l", "b", "a", "r">>
ToolbarPrefix == Toolbar \o <<"/">>

\* a bookmark row joined with its parent folder and its place
Row(title, parent, lastModified, url) ==
    [title |-> title, parent |-> parent, lastModified |-> lastModified, url |-> url]

\* the CASE expression that fetch_rows selects AS full_title
full_title(row) ==
    IF row.parent = NULL THEN row.title
    ELSE IF row.parent = Toolbar THEN row.title
    ELSE row.parent \o <<"/">> \o row.title

\* WHERE full_title LIKE "%query%"  (LIKE ignores ASCII case)
Like(row, query) == Contains(Lower(full_title(row)), Lower(query))

\* the first key of ORDER BY: instr(LOWER(A.title), LOWER(query)), absent for
\* the empty query
OrderKey(row, query) ==
    IF query = <<>> THEN 0 ELSE InStr(Lower(row.title), Lower(query))

\* the row at i is placed before the row at j by
\* ORDER BY key ASC, A.lastModified DESC; rows equal in both stay in table order
Before(rows, key, i, j) ==
    \/ key[i] < key[j]
    \/ /\ key[i] = key[j]
       /\ \/ rows[i].lastModified > rows[j].lastModified
          \/ rows[i].lastModified = rows[j].lastModified /\ i < j

\* the rows in the order given by the keys
Sorted(rows, key) ==
    [k \in 1..Len(rows) |->
        rows[CHOOSE i \in 1..Len(rows) :
                Cardinality({j \in 1..Len(rows) : Before(rows, key, j, i)}) = k - 1]]

\* ORDER BY of fetch_rows
OrderBy(rows, query) ==
    Sorted(rows, [i \in 1..Len(rows) |-> OrderKey(rows[i], query)])

\* LIMIT n
Limit(rows, n) == SubSeq(rows, 1, IF Len(rows) < n THEN Len(rows) ELSE n)

\* FirefoxBookmarksHandler.fetch_rows: cursor() raises on a closed connection,
\* execute() raises on a file that is not a database
fetch_rows(self, db, query) ==
    IF self.conn # "open" \/ ~db.valid
    THEN [raised |-> TRUE, rows |-> <<>>]
    ELSE [raised |-> FALSE,
          rows |-> Limit(OrderBy(SelectSeq(db.rows, LAMBDA r : Like(r, query)), query),
                         self.max_matches_len)]

\* the loop over rows of get_bookmarks
FirefoxItem(image, link) ==
    LET ft == full_title(link)
        shown == IF StartsWith(ft, ToolbarPrefix)
                 THEN SubSeq(ft, Len(ToolbarPrefix) + 1, Len(ft)) ELSE ft IN
    ExtensionResultItem(image, shown, link.url, link.url)

\* the items get_bookmarks builds from what fetch_rows returned
FirefoxItems(self, r) ==
    [raised |-> r.raised,
     items |-> [i \in 1..Len(r.rows) |-> FirefoxItem(self.image, r.rows[i])],
     rows |-> r.rows, matches_len |-> self.matches_len]

\* FirefoxBookmarksHandler.get_bookmarks; reading self.conn raises
\* AttributeError when __init__ never assigned it
FirefoxGetBookmarks(self, db, query) ==
    IF self.conn = "unset"
    THEN [raised |-> TRUE, items |-> <<>>, rows |-> <<>>, matches_len |-> self.matches_len]
    ELSE IF ~self.active
    THEN [raised |-> FALSE, items |-> <<>>, rows |-> <<>>, matches_len |-> self.matches_len]
    ELSE FirefoxItems(self, fetch_rows(self, db, IF query = None THEN <<>> ELSE query))

\* FirefoxBookmarksHandler.close and ChromiumBookmarksHandler.close (pass);
\* closing a closed sqlite3 connection does nothing
close(b, self) ==
    IF support_browsers[b].handler = "Chromium" THEN [raised |-> FALSE, self |-> self]
    ELSE IF self.conn = "unset" THEN [raised |-> TRUE, self |-> self]
    ELSE [raised |-> FALSE, self |-> [self EXCEPT !.conn = "closed"]]

(***************************************************************************)
(* The extension                                                           *)
(***************************************************************************)
\* handler.get_bookmarks(query) of either family
get_bookmarks(b, self, disk, query) ==
    IF support_browsers[b].handler = "Chromium"
    THEN ChromiumGetBookmarks(self, disk, query)
    ELSE FirefoxGetBookmarks(self, disk.db, query)

\* the call of get_default_profile_path made by a Firefox constructor
NoProfile == [called |-> FALSE, raised |-> FALSE, value |-> ""]
ProfileCall(ff) ==
    IF ~ff.rootExists THEN NoProfile
    ELSE LET r == get_default_profile_path(ff.config) IN
         [called |-> TRUE, raised |-> r.raised, value |-> r.value]

RECURSIVE BuildHandlers(_, _, _, _)

\* one turn of the loop of get_bookmark_browser_handlers: r is what the
\* constructor of the handler of b did
AfterInit(disks, i, acc, trace, b, r, profile) ==
    IF r.raised
    THEN [raised |-> TRUE, handlers |-> <<>>,
          trace |-> Append(trace, [key |-> b, raised |-> TRUE, conn |-> r.self.conn,
                                   profile |-> profile])]
    ELSE BuildHandlers(disks, i + 1, acc @@ (b :> r.self),
                       Append(trace, [key |-> b, raised |-> FALSE, conn |-> r.self.conn,
                                      profile |-> profile]))

\* BrowserBookmarks.get_bookmark_browser_handlers: one constructor call per
\* entry of support_browsers; the first constructor that raises ends __init__
BuildHandlers(disks, i, acc, trace) ==
    IF i > Len(BrowserOrder)
    THEN [raised |-> FALSE, handlers |-> acc, trace |-> trace]
    ELSE IF support_browsers[BrowserOrder[i]].handler = "Chromium"
    THEN AfterInit(disks, i, acc, trace, BrowserOrder[i],
                   [raised |-> FALSE,
                    self |-> ChromiumInit(BrowserOrder[i], disks[BrowserOrder[i]])],
                   NoProfile)
    ELSE AfterInit(disks, i, acc, trace, BrowserOrder[i],
                   FirefoxInit(BrowserOrder[i], disks[BrowserOrder[i]]),
                   ProfileCall(disks[BrowserOrder[i]]))

\* BrowserBookmarks.set_pref
set_pref(hs, pref_name, pref_value) ==
    IF pref_name[1] = "search_"
    THEN LET targetBrowser == pref_name[2]
             targetValue == (pref_value = "yes") IN
         IF targetBrowser \notin DOMAIN hs
         THEN [raised |-> TRUE, handlers |-> hs]
         ELSE [raised |-> FALSE,
               handlers |-> [hs EXCEPT ![targetBrowser].active = targetValue]]
    ELSE [raised |-> FALSE, handlers |-> hs]

RECURSIVE FinalLoop(_, _, _, _, _, _)

NotCalled == [called |-> FALSE, raised |-> FALSE, items |-> <<>>, rows |-> <<>>]

\* one turn of the loop of get_final_items: r is what get_bookmarks of the
\* handler of b returned; the first handler that raises ends the call
AfterHandler(hs, disks, query, i, final_items, contrib, b, r) ==
    IF r.raised
    THEN [raised |-> TRUE,
          handlers |-> [hs EXCEPT ![b].matches_len = r.matches_len],
          final_items |-> <<>>,
          contrib |-> [contrib EXCEPT ![b] = [called |-> TRUE, raised |-> TRUE,
                                              items |-> r.items, rows |-> r.rows]]]
    ELSE FinalLoop([hs EXCEPT ![b].matches_len = r.matches_len], disks, query, i + 1,
                   final_items \o r.items,
                   [contrib EXCEPT ![b] = [called |-> TRUE, raised |-> FALSE,
                                           items |-> r.items, rows |-> r.rows]])

\* the loop of get_final_items: final_items += handler.get_bookmarks(query)
FinalLoop(hs, disks, query, i, final_items, contrib) ==
    IF i > Len(BrowserOrder)
    THEN [raised |-> FALSE, handlers |-> hs, final_items |-> final_items, contrib |-> contrib]
    ELSE AfterHandler(hs, disks, query, i, final_items, contrib, BrowserOrder[i],
                      get_bookmarks(BrowserOrder[i], hs[BrowserOrder[i]],
                                    disks[BrowserOrder[i]], query))

\* get_final_items returning final_items whole
NoTruncate(items) == items

\* final_items[:self.max_matches_len]
Truncate(items) ==
    SubSeq(items, 1, IF Len(items) < max_matches_len THEN Len(items) ELSE max_matches_len)

\* what get_final_items returns when its loop has ended as r
Returned(r) ==
    [raised |-> r.raised, handlers |-> r.handlers, contrib |-> r.contrib,
     total |-> Len(r.final_items),
     items |-> IF r.raised THEN <<>> ELSE Truncate(r.final_items)]

\* BrowserBookmarks.get_final_items
get_final_items(hs, disks, query) ==
    Returned(FinalLoop(hs, disks, query, 1, <<>>, [b \in BrowserKeys |-> NotCalled]))

RECURSIVE CleanupLoop(_, _)
\* BrowserBookmarks.cleanup
CleanupLoop(hs, i) ==
    IF i > Len(BrowserOrder)
    THEN [raised |-> FALSE, handlers |-> hs]
    ELSE LET b == BrowserOrder[i]
             r == close(b, hs[b]) IN
         IF r.raised THEN [raised |-> TRUE, handlers |-> hs]
         ELSE CleanupLoop([hs EXCEPT ![b] = r.self], i + 1)

(***************************************************************************)
(* The disk: bookmark files and Firefox profiles the model draws from      *)
(***************************************************************************)
A1 == <<"a">>
B1 == <<"b">>

\* a Bookmarks file of six bookmarks, one folder nested in the bookmark bar
BigData ==
    [readable |-> TRUE, json_ok |-> TRUE, has |-> {"bookmark_bar", "synced", "other"},
     roots |-> [bookmark_bar |-> Folder(<<Url(<<"a", SP, "b">>, "u1"),
                                          Folder(<<Url(<<"A", "b">>, "u2"), Url(B1, "u3")>>),
                                          Url(<<"b", "a">>, "u4")>>),
                synced |-> Folder(<<>>),
                other |-> Folder(<<Url(<<"A">>, "u5"), Url(<<"b", TAB, "a">>, "u6")>>)]]

SmallData ==
    [readable |-> TRUE, json_ok |-> TRUE, has |-> {"bookmark_bar", "synced", "other"},
     roots |-> [bookmark_bar |-> Folder(<<Url(A1, "v1")>>),
                synced |-> Folder(<<Url(<<"B", "a">>, "v2")>>),
                other |-> Folder(<<>>)]]

\* a file whose JSON has no roots.synced
NoSyncedData == [SmallData EXCEPT !.has = {"bookmark_bar", "other"}]
\* a file that is not JSON
MalformedData == [SmallData EXCEPT !.json_ok = FALSE]
\* a file open() fails on
UnreadableData == [SmallData EXCEPT !.readable = FALSE]

File(dir, base, data) == [path |-> [dir |-> dir, base |-> base], data |-> data]

\* k profiles of google-chrome, each with the same six bookmarks, and a backup
BigDisk(k) ==
    [i \in 1..k |-> File(i, "Bookmarks", BigData)]
        \o <<File(1, "Bookmarks.bak", BigData), File(1, "Preferences", MalformedData)>>

\* what `find` meets under the root of a Chromium-family browser, by name
ChromeDisks == 0..MaxProfiles
ChromiumDisks == {"small", "nosynced", "malformed"}
BraveDisks == {"none", "unreadable"}

ChromiumDisk(name) ==
    CASE name = "none"       -> <<>>
      [] name = "small"      -> <<File(1, "Bookmarks", SmallData)>>
      [] name = "nosynced"   -> <<File(1, "Bookmarks", NoSyncedData)>>
      [] name = "malformed"  -> <<File(1, "Bookmarks", MalformedData),
                                  File(2, "Bookmarks", SmallData)>>
      [] name = "unreadable" -> <<File(1, "Bookmarks", UnreadableData)>>

\* profiles.ini as Firefox writes it: Install section first
CfgInstallFirst ==
    << Section("Install", "4F96", TRUE, "pi", FALSE, ""),
       Section("Profile", "1", TRUE, "1", TRUE, "p1"),
       Section("Profile", "0", TRUE, "0", TRUE, "p0") >>
\* only Profile0, marked as the default
CfgOnlyProfile0 == << Section("Profile", "0", TRUE, "1", TRUE, "p0") >>
\* the default profile is Profile1
CfgDefault1 ==
    << Section("Profile", "0", TRUE, "0", TRUE, "p0"),
       Section("Profile", "1", TRUE, "1", TRUE, "p1") >>
\* a General section, which has no Default key, before the Install section
CfgGeneralFirst ==
    << Section("General", "", FALSE, "", FALSE, ""),
       Section("Install", "4F96", TRUE, "pi", FALSE, ""),
       Section("Profile", "0", FALSE, "", TRUE, "p0") >>
\* a profile without Default key before the default one
CfgLegacy ==
    << Section("Profile", "0", FALSE, "", TRUE, "p0"),
       Section("Profile", "1", TRUE, "1", TRUE, "p1") >>
\* profiles.ini absent: read() leaves the parser empty
CfgEmpty == << >>

Folder_a == <<"a">>

\* moz_bookmarks joined with moz_places; lastModified values are distinct, so
\* that ORDER BY leaves no tie
GoodRows ==
    << Row(B1, Folder_a, 5, "w1"),
       Row(<<"A", "b">>, Toolbar, 9, "w2"),
       Row(<<"b", "a">>, NULL, 7, "w3"),
       Row(ToolbarPrefix \o A1, NULL, 3, "w4") >>
        \o [i \in 1..8 |-> Row(<<"B">>, Toolbar, 10 + i, <<"w", i>>)]

GoodDB == [valid |-> TRUE, rows |-> GoodRows]
SnapDB == [valid |-> TRUE, rows |-> << Row(A1, NULL, 1, "s1") >>]
\* places.sqlite that is not a database: connect() succeeds, execute() raises
CorruptDB == [valid |-> FALSE, rows |-> <<>>]

FF(rootExists, config, places, db) ==
    [rootExists |-> rootExists, config |-> config, places |-> places, db |-> db]

AllProfiles == {"pi", "p0", "p1"}

\* what is under the root of a Firefox-family browser, by name
FirefoxDisks ==
    {"absent", "install", "only0", "default1", "general", "legacy", "noini"}
SnapDisks == {"absent", "snap"}

FirefoxDisk(name) ==
    CASE name = "absent"   -> FF(FALSE, CfgEmpty, {}, CorruptDB)
      [] name = "install"  -> FF(TRUE, CfgInstallFirst, AllProfiles, GoodDB)
      [] name = "only0"    -> FF(TRUE, CfgOnlyProfile0, AllProfiles, CorruptDB)
      [] name = "default1" -> FF(TRUE, CfgDefault1, {"p1"}, GoodDB)
      [] name = "general"  -> FF(TRUE, CfgGeneralFirst, AllProfiles, GoodDB)
      [] name = "legacy"   -> FF(TRUE, CfgLegacy, AllProfiles, GoodDB)
      [] name = "noini"    -> FF(TRUE, CfgEmpty, {}, CorruptDB)
      [] name = "snap"     -> FF(TRUE, CfgInstallFirst, AllProfiles, SnapDB)

\* the texts of the keyword query events
Queries ==
    { None, <<>>, A1, <<"a", SP, "B">>, <<"a", TAB, "b">>, <<"b", SP, SP, "a">> }

\* the preferences that select sources, and the other preferences
SearchPrefs == {<<"search_", b>> : b \in BrowserKeys}
PrefIds == SearchPrefs \cup {<<"", "firefox_profile">>}

(***************************************************************************)
(* The state machine                                                       *)
(***************************************************************************)
\* the installation every bookmark store of which is in order
Healthy ==
    [chrome |-> MaxProfiles, chromium |-> "small", brave |-> "none",
     firefox |-> "install", snapfirefox |-> "snap"]

\* the installations that differ from the healthy one in one browser at most
Installations ==
    {d \in [chrome : ChromeDisks, chromium : ChromiumDisks, brave : BraveDisks,
            firefox : FirefoxDisks, snapfirefox : SnapDisks] :
        Cardinality({b \in BrowserKeys : d[b] # Healthy[b]}) <= 1}

\* the content of the disk named by fs
Disks ==
    [b \in BrowserKeys |->
        IF b = "chrome" THEN (IF fs[b] = 0 THEN <<>> ELSE BigDisk(fs[b]))
        ELSE IF b \in ChromiumKeys THEN ChromiumDisk(fs[b])
        ELSE FirefoxDisk(fs[b])]

Init ==
    /\ fs \in Installations
    /\ phase = "new"
    /\ constructed = <<>>
    /\ handlers = <<>>
    /\ last = [op |-> "none"]

\* the state __init__ leaves when get_bookmark_browser_handlers ended as r
Constructed(r) ==
    /\ phase' = IF r.raised THEN "failed" ELSE "ready"
    /\ constructed' = r.trace
    /\ handlers' = r.handlers
    /\ last' = [op |-> "init", raised |-> r.raised]

\* BrowserBookmarks.__init__
Construct ==
    /\ phase = "new"
    /\ Constructed(BuildHandlers(Disks, 1, <<>>, <<>>))
    /\ UNCHANGED fs

RECURSIVE ApplyPrefs(_, _, _)
\* the loop of PreferencesEventListener.on_event over the preferences not yet set
ApplyPrefs(hs, prefs, todo) ==
    IF todo = {} THEN [raised |-> FALSE, handlers |-> hs]
    ELSE LET pref == CHOOSE x \in todo : TRUE
             r == set_pref(hs, pref, prefs[pref]) IN
         IF r.raised THEN r ELSE ApplyPrefs(r.handlers, prefs, todo \ {pref})

\* PreferencesEventListener.on_event; Ulauncher sends the event once, when
\* the extension has started
PreferencesEvent(preferences) ==
    /\ phase = "ready"
    /\ last.op = "init"
    /\ LET r == ApplyPrefs(handlers, preferences, DOMAIN preferences) IN
       /\ handlers' = r.handlers
       /\ last' = [op |-> "prefs", raised |-> r.raised]
    /\ UNCHANGED <<fs, phase, constructed>>

\* PreferencesUpdateEventListener.on_event
PreferencesUpdateEvent(id, new_value) ==
    /\ phase = "ready"
    /\ LET r == IF id \in allowed_event_ids
                THEN set_pref(handlers, id, new_value)
                ELSE [raised |-> FALSE, handlers |-> handlers] IN
       /\ handlers' = r.handlers
       /\ last' = [op |-> "update", raised |-> r.raised]
    /\ UNCHANGED <<fs, phase, constructed>>

\* the state a keyword query leaves when get_final_items ended as r
Answered(query, r) ==
    /\ handlers' = r.handlers
    /\ last' = [op |-> "search", raised |-> r.raised, query |-> query,
                items |-> r.items, total |-> r.total, contrib |-> r.contrib]

\* KeywordQueryEventListener.on_event
KeywordQueryEvent(query) ==
    /\ phase = "ready"
    /\ Answered(query, get_final_items(handlers, Disks, query))
    /\ UNCHANGED <<fs, phase, constructed>>

\* SystemExitEventListener.on_event
SystemExitEvent ==
    /\ phase = "ready"
    /\ LET r == CleanupLoop(handlers, 1) IN
       /\ handlers' = r.handlers
       /\ last' = [op |-> "cleanup", raised |-> r.raised]
    /\ UNCHANGED <<fs, phase, constructed>>

Next ==
    \/ Construct
    \/ \E preferences \in [PrefIds -> {"yes", "no"}] : PreferencesEvent(preferences)
    \/ \E id \in PrefIds, new_value \in {"yes", "no"} : PreferencesUpdateEvent(id, new_value)
    \/ \E query \in Queries : KeywordQueryEvent(query)
    \/ SystemExitEvent

Spec == Init /\ [][Next]_vars

(***************************************************************************)
(* Properties                                                              *)
(***************************************************************************)
Searched == phase = "ready" /\ last.op = "search"

\* the text a handler works on (None becomes '')
TextOf(query) == IF query = None THEN <<>> ELSE query

RECURSIVE UrlNodes(_)
RECURSIVE UrlNodesOfAll(_, _)
\* the non-folder nodes below a node, in depth-first order
UrlNodes(node) ==
    IF node.type = "folder" THEN UrlNodesOfAll(node.children, 1) ELSE <<node>>
UrlNodesOfAll(children, i) ==
    IF i > Len(children) THEN <<>>
    ELSE UrlNodes(children[i]) \o UrlNodesOfAll(children, i + 1)

RECURSIVE UrlNodesOfFiles(_, _, _)
\* the non-folder nodes of the files of a Chromium handler: files in the order
\* of bookmark_paths, roots in the order bookmark_bar, synced, other
UrlNodesOfFiles(b, paths, p) ==
    IF p > Len(paths) THEN <<>>
    ELSE LET data == FileAt(Disks[b], paths[p]) IN
         UrlNodes(data.roots.bookmark_bar) \o UrlNodes(data.roots.synced)
            \o UrlNodes(data.roots.other) \o UrlNodesOfFiles(b, paths, p + 1)

\* text[i .. i+n-1] is a sub-term of the text: a maximal run of characters
\* that are not separators
IsRun(text, seps, i, n) ==
    /\ i + n - 1 <= Len(text)
    /\ \A k \in i..(i + n - 1) : text[k] \notin seps
    /\ i = 1 \/ text[i - 1] \in seps
    /\ i + n - 1 = Len(text) \/ text[i + n] \in seps

\* a title holds every sub-term of the text, whatever the case of the letters
HoldsEveryTerm(title, text, seps) ==
    \A i \in 1..Len(text), n \in 1..Len(text) :
        IsRun(text, seps, i, n) => Contains(Lower(title), Lower(Slice(text, i, n)))

\* the first max_matches_len nodes, in order of visit, that hold every sub-term
Expected(b, text, seps) ==
    LET hits == SelectSeq(UrlNodesOfFiles(b, handlers[b].bookmark_paths, 1),
                          LAMBDA n : HoldsEveryTerm(n.name, text, seps)) IN
    SubSeq(hits, 1, IF Len(hits) < max_matches_len THEN Len(hits) ELSE max_matches_len)

\* C1: the list a search returns has at most max_matches_len items
C1_SearchWithinBudget ==
    (Searched /\ ~last.raised) => Len(last.items) <= max_matches_len

\* a search whose sources found more than the budget and that returned the budget
C1_Witness ==
    /\ Searched /\ ~last.raised
    /\ last.total > max_matches_len
    /\ Len(last.items) = max_matches_len
    /\ \E b \in BrowserKeys \ {"chrome"} : last.contrib[b].items # <<>>

\* C2: a source whose active flag is false contributes no item to a search and
\* a search with every source disabled returns the empty list
C2_DisabledContributesNothing ==
    Searched =>
        /\ \A b \in BrowserKeys :
              ~handlers[b].active =>
                  /\ last.contrib[b].items = <<>>
                  /\ ~last.contrib[b].raised
        /\ (\A b \in BrowserKeys : ~handlers[b].active) =>
              /\ ~last.raised
              /\ last.items = <<>>

\* a search with every source disabled, for a text google-chrome has bookmarks for
C2_Witness ==
    /\ Searched
    /\ \A b \in BrowserKeys : ~handlers[b].active
    /\ last.contrib["chrome"].called
    /\ ChromiumGetBookmarksIgnoringActive(handlers["chrome"], Disks["chrome"], last.query).items # <<>>
    /\ last.items = <<>>

\* what a source returns when it is queried on its own; nothing when it fails
Alone(b) ==
    LET r == get_bookmarks(b, handlers[b], Disks[b], last.query) IN
    IF r.raised THEN <<>> ELSE r.items

\* C3: a failure inside one source never makes the search raise and leaves the
\* items of the other sources as they are
C3_FailureIsolated ==
    Searched =>
        /\ ~last.raised
        /\ \A b \in BrowserKeys : last.contrib[b].items = Alone(b)

\* the handlers as they were before cleanup() closed the connections
Reopened ==
    [b \in BrowserKeys |->
        IF handlers[b].conn = "closed" THEN [handlers[b] EXCEPT !.conn = "open"]
        ELSE handlers[b]]

\* C4: after cleanup, a search that would not have raised before does not raise
C4_SearchAfterCleanup ==
    ( /\ Searched
      /\ \E b \in FirefoxKeys : handlers[b].conn = "closed"
      /\ ~get_final_items(Reopened, Disks, last.query).raised )
    => ~last.raised

\* C5: a Firefox handler whose browser root is missing is constructed without
\* error and is inert: its queries return the empty list, its close does nothing
C5_MissingRootIsInert ==
    \A i \in 1..Len(constructed) :
        LET b == constructed[i].key IN
        (b \in FirefoxKeys /\ ~Disks[b].rootExists) =>
            /\ ~constructed[i].raised
            /\ LET self == FirefoxInit(b, Disks[b]).self IN
               /\ \A query \in Queries :
                     /\ ~FirefoxGetBookmarks(self, Disks[b].db, query).raised
                     /\ FirefoxGetBookmarks(self, Disks[b].db, query).items = <<>>
               /\ ~close(b, self).raised
               /\ close(b, self).self = self

\* the position of the text in the full title, the key the ordering is said to use
FullTitleKey(row, text) ==
    IF text = <<>> THEN 0 ELSE InStr(Lower(full_title(row)), Lower(text))

\* C6: the rows of a Firefox source are ordered by the position of the text in
\* the full title, then by lastModified descending
C6_OrderedByFullTitlePosition ==
    Searched =>
        \A b \in FirefoxKeys :
            LET rows == last.contrib[b].rows
                text == TextOf(last.query) IN
            \A i \in 1..Len(rows), j \in 1..Len(rows) :
                i < j =>
                    \/ FullTitleKey(rows[i], text) < FullTitleKey(rows[j], text)
                    \/ /\ FullTitleKey(rows[i], text) = FullTitleKey(rows[j], text)
                       /\ rows[i].lastModified >= rows[j].lastModified

ChromiumReturns(seps) ==
    Searched =>
        \A b \in ChromiumKeys :
            (last.contrib[b].called /\ ~last.contrib[b].raised /\ handlers[b].active) =>
                last.contrib[b].items =
                    ItemsOf(handlers[b].image, Expected(b, TextOf(last.query), seps))

\* C8 as stated: the text is cut at every whitespace character
C8_SplitOnWhitespace == ChromiumReturns({SP, TAB})

\* C8: the text is cut at the space character only; a non-folder node visited
\* before the budget is reached is included iff its title holds every sub-term
\* whatever the case, and the empty text includes every such node
C8_SplitOnSpace == ChromiumReturns({SP})

\* a text of two sub-terms that some bookmarks of google-chrome hold and some do not
C8_Witness ==
    /\ Searched
    /\ last.query = <<"a", SP, "B">>
    /\ last.contrib["chrome"].called /\ ~last.contrib["chrome"].raised
    /\ handlers["chrome"].active
    /\ last.contrib["chrome"].items # <<>>
    /\ Len(last.contrib["chrome"].items)
          < Len(UrlNodesOfFiles("chrome", handlers["chrome"].bookmark_paths, 1))

\* C9: an update event that names a source sets the flag of that source to the
\* new value and leaves the flags of the other sources as they are
C9_UpdateSetsNamedFlag ==
    [][\A b \in BrowserKeys, v \in {"yes", "no"} :
          PreferencesUpdateEvent(<<"search_", b>>, v) =>
              /\ handlers'[b].active = (v = "yes")
              /\ \A o \in BrowserKeys \ {b} : handlers'[o].active = handlers[o].active]_vars

\* the profile the selection is said to make
FirstOf(S) == CHOOSE i \in S : \A j \in S : i <= j
SelectedProfile(config) ==
    LET installs == {i \in 1..Len(config) :
                        config[i].prefix = "Install" /\ config[i].hasDefault}
        defaults == {i \in 1..Len(config) :
                        /\ config[i].hasDefault /\ config[i].Default = "1"
                        /\ config[i].hasPath} IN
    IF installs # {} THEN [defined |-> TRUE, value |-> config[FirstOf(installs)].Default]
    ELSE IF defaults # {} THEN [defined |-> TRUE, value |-> config[FirstOf(defaults)].Path]
    ELSE [defined |-> ~GetProfile0Path(config).raised, value |-> GetProfile0Path(config).value]

\* C10: get_default_profile_path returns the Default of an Install section, else
\* the Path of the first section with Default = 1, else the Path of Profile0,
\* and raises on no section that lacks the Default key
C10_ProfileSelection ==
    \A i \in 1..Len(constructed) :
        LET b == constructed[i].key IN
        (constructed[i].profile.called /\ SelectedProfile(Disks[b].config).defined) =>
            /\ ~constructed[i].profile.raised
            /\ constructed[i].profile.value = SelectedProfile(Disks[b].config).value

====
